---- MODULE Spec2Model ----
(***************************************************************************)
(* Model of multi_audio_importer.py: the scan / stream-selection state of  *)
(* MultiAudioProperties, the operators AUDIO_OT_ScanTracks and             *)
(* AUDIO_OT_ImportMedia, and the pure look-ups they use (channel names of  *)
(* a layout, pan value of a pan key).                                      *)
(*                                                                         *)
(* Pan values are kept as integers in units of 0.00001, so that -1.2225 is *)
(* -122250 and 1.66667 is 166667.                                          *)
(***************************************************************************)
EXTENDS Integers, Sequences, FiniteSets, TLC

VARIABLES
    FFPROBE_PATH,    \* TRUE iff find_executable("ffprobe") found the tool
    FFMPEG_PATH,     \* TRUE iff find_executable("ffmpeg") found the tool
    media_path,      \* props.media_path
    streams,         \* props.streams: sequence of AudioStreamItem
    stream_index,    \* props.stream_index
    channels,        \* props.channels: sequence of AudioChannelItem
    channel_index,   \* props.channel_index
    scan_attempted,  \* props.scan_attempted
    console,         \* diagnostics printed by the last stream_selected call
    sequences,       \* channels (track slots) occupied in the sequence editor
    last,            \* outcome of the most recent user operation
    call,            \* pure look-ups: the call under evaluation
    ret              \* pure look-ups: what the call returned

vars == <<FFPROBE_PATH, FFMPEG_PATH, media_path, streams, stream_index,
          channels, channel_index, scan_attempted, console, sequences,
          last, call, ret>>

propsVars == <<media_path, streams, stream_index, channels, channel_index,
               scan_attempted>>

fnVars == <<call, ret>>

(***************************************************************************)
(* Bounds of the model.                                                    *)
(***************************************************************************)
\* largest channel count given to the pure channel-name look-up
MaxChannelCount == 9
\* highest track slot a strip added by the user (outside this add-on) may
\* take, and the highest occupied slot at which an import is still explored
MaxTop == 2
\* how many strip placements of one import the host may reject
MaxPlaceFails == 1

(***************************************************************************)
(* Tables.                                                                 *)
(***************************************************************************)
pan_preset_items ==
    {"FRONTLEFT", "FRONTCENTER", "FRONTRIGHT", "SIDELEFT", "SIDERIGHT",
     "REARLEFT", "REARRIGHT"}

Layout(l, chs) == [ffmpeg_layout |-> l, channels |-> chs]

CHANNEL_LAYOUT_MAP ==
    "mono" :> Layout("mono", <<"FC">>)
 @@ "stereo" :> Layout("stereo", <<"FL", "FR">>)
 @@ "2.1" :> Layout("2.1", <<"FL", "FR", "LFE">>)
 @@ "3.0" :> Layout("3.0", <<"FL", "FR", "FC">>)
 @@ "3.0(back)" :> Layout("3.0(back)", <<"FL", "FR", "BC">>)
 @@ "3.1" :> Layout("3.1", <<"FL", "FR", "FC", "LFE">>)
 @@ "4.0" :> Layout("quad", <<"FL", "FR", "BL", "BR">>)
 @@ "quad" :> Layout("quad", <<"FL", "FR", "BL", "BR">>)
 @@ "quad(side)" :> Layout("quad(side)", <<"FL", "FR", "SL", "SR">>)
 @@ "4.1" :> Layout("4.1", <<"FL", "FR", "FC", "LFE", "BC">>)
 @@ "5.0" :> Layout("5.0(side)", <<"FL", "FR", "FC", "SL", "SR">>)
 @@ "5.0(side)" :> Layout("5.0(side)", <<"FL", "FR", "FC", "SL", "SR">>)
 @@ "5.1" :> Layout("5.1(side)", <<"FL", "FR", "FC", "LFE", "SL", "SR">>)
 @@ "5.1(side)" :> Layout("5.1(side)", <<"FL", "FR", "FC", "LFE", "SL", "SR">>)
 @@ "6.0" :> Layout("6.0(front)", <<"FL", "FR", "FC", "BC", "SL", "SR">>)
 @@ "6.0(front)" :> Layout("6.0(front)", <<"FL", "FR", "FC", "BC", "SL", "SR">>)
 @@ "6.1" :> Layout("6.1(back)", <<"FL", "FR", "FC", "LFE", "BC", "SL", "SR">>)
 @@ "6.1(back)" :> Layout("6.1(back)", <<"FL", "FR", "FC", "LFE", "BC", "SL", "SR">>)
 @@ "6.1(front)" :> Layout("6.1(front)", <<"FL", "FR", "FC", "LFE", "SL", "SR">>)
 @@ "7.0" :> Layout("7.0(front)", <<"FL", "FR", "FC", "BL", "BR", "SL", "SR">>)
 @@ "7.0(front)" :> Layout("7.0(front)", <<"FL", "FR", "FC", "BL", "BR", "SL", "SR">>)
 @@ "7.1" :> Layout("7.1", <<"FL", "FR", "FC", "LFE", "BL", "BR", "SL", "SR">>)
 @@ "7.1(wide)" :> Layout("7.1(wide)", <<"FL", "FR", "FC", "LFE", "BL", "BR", "FLC", "FRC">>)
 @@ "7.1(wide-side)" :> Layout("7.1(wide-side)", <<"FL", "FR", "FC", "LFE", "SL", "SR", "FLC", "FRC">>)
 @@ "octagonal" :> Layout("octagonal", <<"FL", "FR", "FC", "BL", "BR", "SL", "SR", "BC">>)

CHANNEL_NAME_TO_PAN_KEY ==
    "FL" :> "FRONTLEFT" @@ "FR" :> "FRONTRIGHT" @@ "FC" :> "FRONTCENTER"
 @@ "LFE" :> "FRONTCENTER" @@ "BL" :> "REARLEFT" @@ "BR" :> "REARRIGHT"
 @@ "FLC" :> "FRONTLEFT" @@ "FRC" :> "FRONTRIGHT" @@ "BC" :> "FRONTCENTER"
 @@ "SL" :> "SIDELEFT" @@ "SR" :> "SIDERIGHT" @@ "TC" :> "FRONTCENTER"
 @@ "TFL" :> "FRONTLEFT" @@ "TFC" :> "FRONTCENTER" @@ "TFR" :> "FRONTRIGHT"
 @@ "TBL" :> "REARLEFT" @@ "TBC" :> "FRONTCENTER" @@ "TBR" :> "REARRIGHT"
 @@ "Ch1" :> "FRONTLEFT" @@ "Ch2" :> "FRONTRIGHT" @@ "Ch3" :> "FRONTCENTER"
 @@ "Ch4" :> "REARLEFT" @@ "Ch5" :> "REARRIGHT" @@ "Ch6" :> "SIDELEFT"
 @@ "Ch7" :> "SIDERIGHT" @@ "Ch8" :> "FRONTCENTER"

PanRow(fl, fc, fr, sl, sr, rl, rr) ==
    "FRONTLEFT" :> fl @@ "FRONTCENTER" :> fc @@ "FRONTRIGHT" :> fr
 @@ "SIDELEFT" :> sl @@ "SIDERIGHT" :> sr @@ "REARLEFT" :> rl
 @@ "REARRIGHT" :> rr

\* faulty variant of pan_values: under SURROUND71 the side keys are as wide
\* as the rear keys
PanValuesWideSides ==
    "STEREO" :> PanRow(-100000, 0, 100000, -100000, 100000, -100000, 100000)
 @@ "SURROUND4" :> PanRow(-50000, 0, 50000, -150000, 150000, -150000, 150000)
 @@ "SURROUND51" :> PanRow(-33335, 0, 33335, -122250, 122250, -122250, 122250)
 @@ "SURROUND71" :> PanRow(-33335, 0, 33335, -166667, 166667, -166667, 166667)
 @@ "MONO" :> PanRow(0, 0, 0, 0, 0, 0, 0)

pan_values ==
    "STEREO" :> PanRow(-100000, 0, 100000, -100000, 100000, -100000, 100000)
 @@ "SURROUND4" :> PanRow(-50000, 0, 50000, -150000, 150000, -150000, 150000)
 @@ "SURROUND51" :> PanRow(-33335, 0, 33335, -122250, 122250, -122250, 122250)
 @@ "SURROUND71" :> PanRow(-33335, 0, 33335, -122250, 122250, -166667, 166667)
 @@ "MONO" :> PanRow(0, 0, 0, 0, 0, 0, 0)

(***************************************************************************)
(* Pure look-ups.                                                          *)
(***************************************************************************)
\* f"Ch{i+1}" for the 0-based position i = n - 1
GenericNameTable ==
    <<"Ch1", "Ch2", "Ch3", "Ch4", "Ch5", "Ch6", "Ch7", "Ch8", "Ch9", "Ch10",
      "Ch11", "Ch12", "Ch13", "Ch14", "Ch15", "Ch16">>

GenericName(n) == GenericNameTable[n]

\* [f"Ch{i+1}" for i in range(n_ch)]
GenericNames(n_ch) == [i \in 1..n_ch |-> GenericName(i)]

\* CHANNEL_LAYOUT_MAP.get(layout) is truthy
LayoutMapped(layout) == layout \in DOMAIN CHANNEL_LAYOUT_MAP

\* faulty variant of UseMappedLayout: the length of the entry is not looked at
UseUncheckedLayout(layout, n_ch) == LayoutMapped(layout)

\* a mapped layout is used only when it lists exactly n_ch channels

UseMappedLayout(layout, n_ch) ==
    /\ LayoutMapped(layout)
    /\ Len(CHANNEL_LAYOUT_MAP[layout].channels) = n_ch

\* chnames of stream_selected
ChannelNames(layout, n_ch) ==
    IF UseMappedLayout(layout, n_ch)
    THEN CHANNEL_LAYOUT_MAP[layout].channels
    ELSE GenericNames(n_ch)

\* faulty variant of FallbackWarnings: an empty layout counts as not mapped
WarnAlwaysNamesCause(layout, n_ch) ==
    IF UseMappedLayout(layout, n_ch) THEN {}
    ELSE (IF ~LayoutMapped(layout) THEN {"not_mapped"} ELSE {"mismatch"})
         \cup {"generic_names"}

\* the warnings stream_selected prints on the fallback path
FallbackWarnings(layout, n_ch) ==
    IF UseMappedLayout(layout, n_ch) THEN {}
    ELSE (IF layout # "" /\ ~LayoutMapped(layout) THEN {"not_mapped"}
          ELSE IF LayoutMapped(layout) THEN {"mismatch"}
          ELSE {})
         \cup {"generic_names"}

\* faulty variant of get_pan_value: an unrecognized setting takes the MONO row
PanDefaultsToMono(pan_key, scene_channels_setting) ==
    LET channel_map == IF scene_channels_setting \in DOMAIN pan_values
                       THEN pan_values[scene_channels_setting]
                       ELSE pan_values["MONO"]
    IN  IF pan_key \in DOMAIN channel_map THEN channel_map[pan_key] ELSE 0

\* get_pan_value
get_pan_value(pan_key, scene_channels_setting) ==
    LET channel_map == IF scene_channels_setting \in DOMAIN pan_values
                       THEN pan_values[scene_channels_setting]
                       ELSE pan_values["STEREO"]
    IN  IF pan_key \in DOMAIN channel_map THEN channel_map[pan_key] ELSE 0

(***************************************************************************)
(* The pure look-ups as calls: the arguments are drawn in InitFn, and each *)
(* action evaluates one look-up on them.                                   *)
(***************************************************************************)
FnLayouts == DOMAIN CHANNEL_LAYOUT_MAP \cup {"", "hexagonal", "unknown"}

FnPanKeys == pan_preset_items \cup {"TOPCENTER"}

FnSettings == DOMAIN pan_values \cup {"AMBISONIC"}

NoCall == [op |-> "none", layout |-> "", n_ch |-> 0, pan_key |-> "",
           setting |-> ""]

NoRet == [done |-> FALSE, chnames |-> <<>>, warnings |-> {}, pan |-> 0]

RoleCalls ==
    {[op |-> "stream_selected", layout |-> l, n_ch |-> n, pan_key |-> "",
      setting |-> ""] : l \in FnLayouts, n \in 0..MaxChannelCount}

PanCalls ==
    {[op |-> "get_pan_value", layout |-> "", n_ch |-> 0, pan_key |-> k,
      setting |-> s] : k \in FnPanKeys, s \in FnSettings}

EvalChannelNames ==
    /\ call.op = "stream_selected"
    /\ ~ret.done
    /\ ret' = [done |-> TRUE,
               chnames |-> ChannelNames(call.layout, call.n_ch),
               warnings |-> FallbackWarnings(call.layout, call.n_ch),
               pan |-> 0]
    /\ UNCHANGED <<FFPROBE_PATH, FFMPEG_PATH, propsVars, console, sequences,
                   last, call>>

EvalPanValue ==
    /\ call.op = "get_pan_value"
    /\ ~ret.done
    /\ ret' = [done |-> TRUE, chnames |-> <<>>, warnings |-> {},
               pan |-> get_pan_value(call.pan_key, call.setting)]
    /\ UNCHANGED <<FFPROBE_PATH, FFMPEG_PATH, propsVars, console, sequences,
                   last, call>>

(***************************************************************************)
(* The file system and the prober's view of it.                            *)
(***************************************************************************)
RawStream(has, idx, n, l) ==
    [has_index |-> has, index |-> idx, channels |-> n, channel_layout |-> l]

MediaFile(v, a) == [video |-> v, audio |-> a]

\* the media files that exist, with what ffprobe reports of each
MediaFiles ==
    "surround.mkv" :> MediaFile(TRUE, <<RawStream(TRUE, 1, 6, "5.1(side)")>>)
 @@ "dual.mov" :> MediaFile(TRUE, <<RawStream(TRUE, 1, 2, "stereo"),
                                    RawStream(TRUE, 2, 2, "stereo")>>)
 @@ "odd.wav" :> MediaFile(FALSE, <<RawStream(TRUE, 0, 3, ""),
                                    RawStream(TRUE, 1, 1, "mono")>>)
 @@ "mismatch.mka" :> MediaFile(FALSE, <<RawStream(TRUE, 0, 3, "stereo")>>)
 @@ "guess.mp4" :> MediaFile(FALSE, <<RawStream(TRUE, 0, 2, "binaural"),
                                      RawStream(TRUE, 1, 0, "")>>)
 @@ "silent.mp4" :> MediaFile(TRUE, <<>>)
 @@ "noindex.mka" :> MediaFile(FALSE, <<RawStream(FALSE, -1, 2, "stereo"),
                                        RawStream(TRUE, 1, 1, "mono")>>)

Directories == {"clips/"}

\* every value the user may give props.media_path
MediaPaths == DOMAIN MediaFiles \cup Directories \cup {"", "gone.mp4"}

\* os.path.exists(bpy.path.abspath(p))
PathExists(p) == p \in DOMAIN MediaFiles \cup Directories

\* os.path.isfile(bpy.path.abspath(p))
IsFile(p) == p \in DOMAIN MediaFiles

HasIndex(s) == s.has_index

\* faulty variant of get_audio_streams_info: a failed probe gives an empty
\* list instead of None
ProbeFailureAsEmpty(path, probe) ==
    IF ~FFPROBE_PATH \/ probe \in {"exit", "badjson", "empty"}
    THEN [ok |-> TRUE, streams |-> <<>>]
    ELSE LET valid_streams == SelectSeq(MediaFiles[path].audio, HasIndex)
         IN  [ok |-> TRUE,
              streams |-> [i \in 1..Len(valid_streams) |->
                  [index |-> valid_streams[i].index,
                   relative_audio_index |-> i - 1,
                   channels |-> valid_streams[i].channels,
                   channel_layout |-> valid_streams[i].channel_layout]]]

\* get_audio_streams_info: ok = FALSE stands for the None it returns on failure
get_audio_streams_info(path, probe) ==
    IF ~FFPROBE_PATH \/ probe \in {"exit", "badjson"}
    THEN [ok |-> FALSE, streams |-> <<>>]
    ELSE IF probe = "empty"
    THEN [ok |-> TRUE, streams |-> <<>>]
    ELSE LET valid_streams == SelectSeq(MediaFiles[path].audio, HasIndex)
         IN  [ok |-> TRUE,
              streams |-> [i \in 1..Len(valid_streams) |->
                  [index |-> valid_streams[i].index,
                   relative_audio_index |-> i - 1,
                   channels |-> valid_streams[i].channels,
                   channel_layout |-> valid_streams[i].channel_layout]]]

\* has_video_stream
has_video_stream(path) == FFPROBE_PATH /\ MediaFiles[path].video

(***************************************************************************)
(* Outcome records.                                                        *)
(***************************************************************************)
Report(level, msg) == [level |-> level, msg |-> msg]

NoSummary == [level |-> "", video |-> "", audio |-> "", count |-> 0]

NoReq == [make_mono |-> FALSE, pack_audio |-> FALSE,
          pan_preset |-> "FRONTCENTER", scene |-> ""]

NoCmd == [relative_audio_idx |-> 0, split |-> FALSE, layout |-> "",
          labels |-> <<>>, ac1 |-> FALSE]

\* what an operator call leaves behind; ret is what it returned
\* ("POLL_FAILED" when poll refused the call and execute never ran). For a
\* stream selection (op "select") and for a scan, prior_index and
\* prior_channels are the index and the channel list it found and replaced;
\* for a scan, probe is what ffprobe did ("" when it was not run)
NoResult ==
    [op |-> "none", ret |-> "", reports |-> <<>>, summary |-> NoSummary,
     probes |-> 0, transcodes |-> 0, req |-> NoReq, cmd |-> NoCmd,
     temps |-> <<>>, clips |-> <<>>, attempts |-> 0, before |-> {},
     prior_index |-> -1, prior_channels |-> <<>>, probe |-> ""]

(***************************************************************************)
(* MultiAudioProperties.                                                   *)
(***************************************************************************)
\* faulty variant of stream_selected: the index is tested before the list is
\* cleared, so an index outside the catalog leaves the list as it was
StreamSelectedChecksFirst(strs, idx) ==
    IF ~(0 <= idx /\ idx < Len(strs))
    THEN [channels |-> channels, console |-> {"invalid_index"}]
    ELSE LET stream == strs[idx + 1]
             n_ch == stream.channels
             chnames == ChannelNames(stream.channel_layout, n_ch)
         IN  [channels |-> [i \in 1..n_ch |->
                              [name |-> chnames[i], index |-> i - 1,
                               selected |-> TRUE]],
              console |-> FallbackWarnings(stream.channel_layout, n_ch)]

\* faulty variant of stream_selected: a channel keeps the Import flag of the
\* entry that was at its position in the list being replaced
StreamSelectedKeepsFlags(strs, idx) ==
    IF ~(0 <= idx /\ idx < Len(strs))
    THEN [channels |-> <<>>, console |-> {"invalid_index"}]
    ELSE LET stream == strs[idx + 1]
             n_ch == stream.channels
             chnames == ChannelNames(stream.channel_layout, n_ch)
         IN  [channels |-> [i \in 1..n_ch |->
                              [name |-> chnames[i], index |-> i - 1,
                               selected |-> IF i <= Len(channels)
                                            THEN channels[i].selected
                                            ELSE TRUE]],
              console |-> FallbackWarnings(stream.channel_layout, n_ch)]

\* stream_selected: the channel list and the console output for the
\* stream at (0-based) index idx of strs
stream_selected(strs, idx) ==
    IF ~(0 <= idx /\ idx < Len(strs))
    THEN [channels |-> <<>>, console |-> {"invalid_index"}]
    ELSE LET stream == strs[idx + 1]
             n_ch == stream.channels
             chnames == ChannelNames(stream.channel_layout, n_ch)
         IN  [channels |-> [i \in 1..n_ch |->
                              [name |-> chnames[i], index |-> i - 1,
                               selected |-> TRUE]],
              console |-> FallbackWarnings(stream.channel_layout, n_ch)]

Init ==
    /\ FFPROBE_PATH \in BOOLEAN
    /\ FFMPEG_PATH \in BOOLEAN
    /\ media_path = ""
    /\ streams = <<>>
    /\ stream_index = -1
    /\ channels = <<>>
    /\ channel_index = 0
    /\ scan_attempted = FALSE
    /\ console = {}
    /\ sequences = {}
    /\ last = NoResult
    /\ call = NoCall
    /\ ret = NoRet

InitFn ==
    /\ FFPROBE_PATH = TRUE
    /\ FFMPEG_PATH = TRUE
    /\ media_path = ""
    /\ streams = <<>>
    /\ stream_index = -1
    /\ channels = <<>>
    /\ channel_index = 0
    /\ scan_attempted = FALSE
    /\ console = {}
    /\ sequences = {}
    /\ last = NoResult
    /\ call \in RoleCalls \cup PanCalls
    /\ ret = NoRet

\* the user sets props.media_path: path_updated
SetMediaPath ==
    \E p \in MediaPaths :
        /\ last.op = "none"
        /\ media_path' = p
        /\ streams' = <<>>
        /\ stream_index' = -1
        /\ channels' = <<>>
        /\ channel_index' = 0
        /\ scan_attempted' = FALSE
        /\ console' = stream_selected(<<>>, -1).console
        /\ last' = NoResult
        /\ UNCHANGED <<FFPROBE_PATH, FFMPEG_PATH, sequences, fnVars>>

\* the user sets props.stream_index (list click, or any value by script)
SelectStream ==
    \E i \in -1..Len(streams) :
        /\ last.op = "none"
        /\ stream_index' = i
        /\ channels' = stream_selected(streams, i).channels
        /\ channel_index' = 0
        /\ console' = stream_selected(streams, i).console
        /\ last' = [NoResult EXCEPT !.op = "select", !.ret = "UPDATED",
                                    !.prior_index = stream_index,
                                    !.prior_channels = channels]
        /\ UNCHANGED <<FFPROBE_PATH, FFMPEG_PATH, media_path, streams,
                       scan_attempted, sequences, fnVars>>

\* the user ticks or unticks the Import box of one channel (CHANNEL_UL_List)
ToggleChannel ==
    \E j \in 1..Len(channels) :
        /\ last.op = "none"
        /\ channels' = [channels EXCEPT ![j].selected = ~channels[j].selected]
        /\ last' = NoResult
        /\ UNCHANGED <<FFPROBE_PATH, FFMPEG_PATH, media_path, streams,
                       stream_index, channel_index, scan_attempted, console,
                       sequences, fnVars>>

\* the user puts a strip of their own on a track slot of the sequence editor
HostAddStrip ==
    \E c \in 1..MaxTop :
        /\ last.op = "none"
        /\ c \notin sequences
        /\ \A s \in sequences : s <= MaxTop
        /\ sequences' = sequences \cup {c}
        /\ last' = NoResult
        /\ UNCHANGED <<FFPROBE_PATH, FFMPEG_PATH, propsVars, console, fnVars>>

(***************************************************************************)
(* AUDIO_OT_ScanTracks.                                                    *)
(***************************************************************************)
ScanPoll == media_path # "" /\ PathExists(media_path)

ScanResult(r, reports, probes) ==
    [NoResult EXCEPT !.op = "scan", !.ret = r, !.reports = reports,
                     !.probes = probes]

\* what ffprobe does when run: a listing, a non-zero exit, output that is
\* no JSON, or no output at all
ProbeOutcomes == {"ok", "exit", "badjson", "empty"}

ScanTracks ==
    /\ last.op = "none"
    /\ \E probe \in ProbeOutcomes :
        IF ~ScanPoll
        THEN /\ probe = "ok"
             /\ last' = ScanResult("POLL_FAILED", <<>>, 0)
             /\ UNCHANGED <<FFPROBE_PATH, FFMPEG_PATH, propsVars, console,
                            sequences, fnVars>>
        ELSE LET data == get_audio_streams_info(media_path, probe)
                 found == IF IsFile(media_path) /\ FFPROBE_PATH /\ data.ok
                          THEN data.streams ELSE <<>>
                 idx == IF Len(found) > 0 THEN 0 ELSE -1
                 ran == IF IsFile(media_path) /\ FFPROBE_PATH THEN 1 ELSE 0
             IN  /\ (~IsFile(media_path) \/ ~FFPROBE_PATH) => probe = "ok"
                 /\ streams' = found
                 /\ stream_index' = idx
                 /\ channels' = stream_selected(found, idx).channels
                 /\ channel_index' = 0
                 /\ scan_attempted' = TRUE
                 /\ console' = stream_selected(found, idx).console
                 /\ last' =
                     [(IF ~IsFile(media_path)
                      THEN ScanResult("CANCELLED",
                               <<Report("ERROR", "Invalid file path.")>>, ran)
                      ELSE IF ~FFPROBE_PATH
                      THEN ScanResult("CANCELLED",
                               <<Report("ERROR", "ffprobe not found.")>>, ran)
                      ELSE IF ~data.ok
                      THEN ScanResult("CANCELLED",
                               <<Report("INFO", "Scanning"),
                                 Report("ERROR", "ffprobe failed.")>>, ran)
                      ELSE IF Len(data.streams) = 0
                      THEN ScanResult("FINISHED",
                               <<Report("INFO", "Scanning"),
                                 Report("INFO", "No audio streams found.")>>,
                               ran)
                      ELSE ScanResult("FINISHED",
                               <<Report("INFO", "Scanning"),
                                 Report("INFO", "Found audio stream(s).")>>,
                               ran))
                      EXCEPT !.probe = IF ran = 1 THEN probe ELSE "",
                             !.prior_index = stream_index,
                             !.prior_channels = channels]
                 /\ UNCHANGED <<FFPROBE_PATH, FFMPEG_PATH, media_path,
                                sequences, fnVars>>

(***************************************************************************)
(* AUDIO_OT_ImportMedia.                                                   *)
(***************************************************************************)
Max(S) == CHOOSE x \in S : \A y \in S : y <= x

Range(f) == {f[i] : i \in DOMAIN f}

IsSelected(c) == c.selected

\* the values of scene.render.ffmpeg.audio_channels an import is run under
SceneSettings == {"STEREO", "SURROUND51"}

\* faulty variant of ImportPoll: the channel selection is not looked at
ImportPollIgnoresSelection(make_mono) ==
    /\ stream_index >= 0 /\ stream_index < Len(streams)
    /\ media_path # "" /\ PathExists(media_path)

\* poll, with make_mono the value of props.make_mono
ImportPoll(make_mono) ==
    /\ stream_index >= 0 /\ stream_index < Len(streams)
    /\ media_path # "" /\ PathExists(media_path)
    /\ (make_mono \/ (~make_mono /\ \E i \in DOMAIN channels : channels[i].selected))

\* faulty variant of start_channel: the strips already in the editor are not
\* looked at
StartChannelFirst(seqs) == 1

\* start_channel: one above the highest occupied channel
start_channel(seqs) == IF seqs = {} THEN 1 ELSE Max(seqs) + 1

\* f"{stream_channels}.0"
GenericLayoutTable ==
    <<"1.0", "2.0", "3.0", "4.0", "5.0", "6.0", "7.0", "8.0", "9.0", "10.0">>

\* layout_info of the split case, after the "basic layout guess"
SplitLayoutInfo(layout_str, n) ==
    IF LayoutMapped(layout_str)
    THEN [found |-> TRUE,
          ffmpeg_layout |-> CHANNEL_LAYOUT_MAP[layout_str].ffmpeg_layout,
          channels |-> CHANNEL_LAYOUT_MAP[layout_str].channels]
    ELSE IF n = 2
    THEN [found |-> TRUE,
          ffmpeg_layout |-> CHANNEL_LAYOUT_MAP["stereo"].ffmpeg_layout,
          channels |-> CHANNEL_LAYOUT_MAP["stereo"].channels]
    ELSE IF n > 2
    THEN [found |-> TRUE, ffmpeg_layout |-> GenericLayoutTable[n],
          channels |-> GenericNames(n)]
    ELSE [found |-> FALSE, ffmpeg_layout |-> "", channels |-> <<>>]

\* faulty variant of SplitPanKey: every split channel is panned to the center
SplitPanKeyCenter(ch_name) == "FRONTCENTER"

\* the pan key of a split channel
SplitPanKey(ch_name) ==
    IF ch_name \in DOMAIN CHANNEL_NAME_TO_PAN_KEY
    THEN CHANNEL_NAME_TO_PAN_KEY[ch_name]
    ELSE "FRONTCENTER"

\* faulty variant of MonoPanKey: the preset is used for an original mono
\* stream too
MonoPanKeyPreset(make_mono_downmix, pan_preset) == pan_preset

\* pan_key_to_use of the downmix / original mono case
MonoPanKey(make_mono_downmix, pan_preset) ==
    IF make_mono_downmix THEN pan_preset ELSE "FRONTCENTER"

\* whether "-ac 1" is added to the ffmpeg command
ForceMonoArg(make_mono_downmix) == make_mono_downmix

\* the finally block: every temp file flagged pack is removed
Cleanup(temps) ==
    [i \in DOMAIN temps |->
        [temps[i] EXCEPT !.exists = IF temps[i].pack THEN FALSE ELSE @]]

TempFile(ch, pack) == [ch |-> ch, pack |-> pack, exists |-> TRUE]

Clip(kind, name, slot, pan, mono, temp, packed) ==
    [kind |-> kind, name |-> name, slot |-> slot, pan |-> pan, mono |-> mono,
     temp |-> temp, packed |-> packed]

AudioClips(clips) == SelectSeq(clips, LAMBDA c : c.kind = "audio")

\* return {'CANCELLED'} after self.report({'ERROR'}, msg)
Cancelled(r, msg) ==
    [r EXCEPT !.ret = "CANCELLED",
              !.reports = Append(@, Report("ERROR", msg))]

\* faulty variant of ReportLevel: a failed video import decides the level
\* before the audio count is looked at
ReportLevelVideoFirst(count, has_video, video_placed) ==
    IF has_video /\ ~video_placed THEN "WARNING"
    ELSE IF count = 0 THEN "ERROR"
    ELSE "INFO"

\* report_level of the final report
ReportLevel(count, has_video, video_placed) ==
    IF count = 0 THEN "ERROR"
    ELSE IF has_video /\ ~video_placed THEN "WARNING"
    ELSE "INFO"

\* "Cleanup & Final Report", then return {'FINISHED'}
Finished(r, has_video, video_placed) ==
    LET count == Len(AudioClips(r.clips))
    IN  [r EXCEPT
           !.ret = "FINISHED",
           !.summary =
              [level |-> ReportLevel(count, has_video, video_placed),
               video |-> IF video_placed THEN "imported"
                         ELSE IF has_video THEN "failed" ELSE "",
               audio |-> IF count > 0 THEN "imported" ELSE "failed",
               count |-> count],
           !.temps = Cleanup(@)]

\* what the host and the tools do during one import: mkstemp fails at the
\* tmpFailAt-th temp file (0: never), how ffmpeg ends, what new_sound does
\* for each strip, whether sound.pack() raises
AllOk(k) == [i \in 1..k |-> "ok"]

Placements(k) ==
    {[i \in 1..k |-> IF i \in F THEN kind ELSE "ok"] :
        F \in {S \in SUBSET (1..k) : Cardinality(S) <= MaxPlaceFails},
        kind \in {"none", "raise"}}

EnvOutcomes(k, pack) ==
    {[tmpFailAt |-> j, ff |-> "ok", place |-> AllOk(k), packRaises |-> FALSE] :
        j \in 1..k}
    \cup {[tmpFailAt |-> 0, ff |-> f, place |-> AllOk(k), packRaises |-> FALSE] :
        f \in {"exit", "timeout", "error"}}
    \cup {[tmpFailAt |-> 0, ff |-> "ok", place |-> p, packRaises |-> b] :
        p \in Placements(k), b \in (IF pack THEN BOOLEAN ELSE {FALSE})}

\* faulty variant of PlaceRejected: a rejected strip leaves no trace
PlaceRejectedSilently(p, kind) == [p EXCEPT !.attempts = @ + 1]

\* the split loop when new_sound returns nothing ("none") or raises: an
\* ERROR report, and the loop continues with the next channel
PlaceRejected(p, kind) ==
    [p EXCEPT !.attempts = @ + 1,
              !.reports = Append(@, Report("ERROR",
                              IF kind = "none" THEN "API Fail"
                              ELSE "Add Strip Error"))]

\* CASE 1, split channels, entered with result r (video already handled)
SplitCase(r, stream, base_channel, env, has_video, video_placed) ==
    LET req == r.req
        n == stream.channels
        selected == SelectSeq(channels, IsSelected)
        k == Len(selected)
        layout_info == SplitLayoutInfo(stream.channel_layout, n)
        made == IF env.tmpFailAt > 0 THEN env.tmpFailAt - 1 ELSE k
        temps == [i \in 1..made |-> TempFile(selected[i].name, req.pack_audio)]
        cmd == [relative_audio_idx |-> stream.relative_audio_index,
                split |-> TRUE, layout |-> layout_info.ffmpeg_layout,
                labels |-> [i \in 1..k |-> selected[i].name], ac1 |-> FALSE]
        withTemps == [r EXCEPT !.temps = temps]
        ran == [withTemps EXCEPT !.cmd = cmd, !.transcodes = 1]
        loop[i \in 0..k] ==
            IF i = 0 THEN ran
            ELSE LET p == loop[i - 1]
                     ch_name == selected[i].name
                     packed == req.pack_audio /\ ~env.packRaises
                 IN  IF env.place[i] = "ok"
                     THEN [p EXCEPT
                            !.attempts = @ + 1,
                            !.clips = Append(@,
                                Clip("audio", ch_name, base_channel + (i - 1),
                                     get_pan_value(SplitPanKey(ch_name), req.scene),
                                     TRUE, i, packed)),
                            !.reports =
                                IF req.pack_audio /\ env.packRaises
                                THEN Append(@, Report("WARNING", "Pack fail"))
                                ELSE @]
                     ELSE PlaceRejected(p, env.place[i])
    IN  IF k = 0 THEN Cancelled(r, "No channels selected.")
        ELSE IF ~layout_info.found THEN Cancelled(r, "Cannot map layout")
        ELSE IF Len(layout_info.channels) # n
        THEN Cancelled(r, "Layout map mismatch")
        ELSE IF env.tmpFailAt > 0
        THEN Cancelled(withTemps, "Temp file create fail")
        ELSE IF env.ff = "timeout" THEN Cancelled(ran, "FFmpeg split timed out")
        ELSE IF env.ff = "exit" THEN Cancelled(ran, "FFmpeg split failed")
        ELSE IF env.ff = "error" THEN Cancelled(ran, "Unexpected split error")
        ELSE Finished(loop[k], has_video, video_placed)

\* CASE 2, downmix or original mono
MonoCase(r, stream, strip_channel, env, has_video, video_placed) ==
    LET req == r.req
        withTemps == [r EXCEPT !.temps = <<TempFile("", req.pack_audio)>>]
        cmd == [relative_audio_idx |-> stream.relative_audio_index,
                split |-> FALSE, layout |-> "", labels |-> <<>>,
                ac1 |-> ForceMonoArg(req.make_mono)]
        ran == [withTemps EXCEPT !.cmd = cmd, !.transcodes = 1]
        tried == [ran EXCEPT !.attempts = 1]
        packed == req.pack_audio /\ ~env.packRaises
        placed ==
            [tried EXCEPT
               !.clips = Append(@,
                   Clip("audio", "", strip_channel,
                        get_pan_value(MonoPanKey(req.make_mono, req.pan_preset),
                                      req.scene),
                        TRUE, 1, packed)),
               !.reports = IF req.pack_audio /\ env.packRaises
                           THEN Append(@, Report("WARNING", "Pack fail"))
                           ELSE @]
        rejected == [tried EXCEPT
                       !.reports = Append(@, Report("ERROR", "API Fail"))]
    IN  IF env.tmpFailAt > 0 THEN Cancelled(r, "Unexpected strip error")
        ELSE IF env.ff = "timeout" THEN Cancelled(ran, "FFmpeg timed out")
        ELSE IF env.ff = "exit" THEN Cancelled(ran, "FFmpeg failed")
        ELSE IF env.ff = "error" THEN Cancelled(ran, "Unexpected strip error")
        ELSE IF env.place[1] = "raise"
        THEN Cancelled(tried, "Unexpected strip error")
        ELSE IF env.place[1] = "none"
        THEN Finished(rejected, has_video, video_placed)
        ELSE Finished(placed, has_video, video_placed)

\* execute
ImportExecute(req, movie, env) ==
    LET base == [NoResult EXCEPT !.op = "import", !.req = req,
                                 !.before = sequences]
        stream == streams[stream_index + 1]
        start == start_channel(sequences)
        has_video == has_video_stream(media_path)
        video_placed == has_video /\ movie = "strip"
        offset == IF has_video /\ movie \in {"strip", "none"} THEN 1 ELSE 0
        afterVideo ==
            [base EXCEPT
               !.probes = IF FFPROBE_PATH THEN 1 ELSE 0,
               !.clips = IF video_placed
                         THEN <<Clip("video", "", start, 0, FALSE, 0, FALSE)>>
                         ELSE <<>>,
               !.reports = IF has_video /\ movie = "raise"
                           THEN <<Report("ERROR", "Video Add Fail")>>
                           ELSE <<>>]
    IN  IF ~IsFile(media_path) THEN Cancelled(base, "Media file invalid.")
        ELSE IF ~FFMPEG_PATH THEN Cancelled(base, "ffmpeg not found.")
        ELSE IF ~(0 <= stream_index /\ stream_index < Len(streams))
        THEN Cancelled(base, "No valid stream selected.")
        ELSE IF ~req.make_mono /\ stream.channels > 1
        THEN SplitCase(afterVideo, stream, start + offset, env, has_video,
                       video_placed)
        ELSE IF req.make_mono \/ stream.channels = 1
        THEN MonoCase(afterVideo, stream, start + offset, env, has_video,
                      video_placed)
        ELSE Finished(afterVideo, has_video, video_placed)

\* how many strips the audio part of an import tries to place
PlacementCount(make_mono) ==
    IF ~(0 <= stream_index /\ stream_index < Len(streams)) THEN 0
    ELSE IF ~make_mono /\ streams[stream_index + 1].channels > 1
    THEN Len(SelectSeq(channels, IsSelected))
    ELSE 1

\* the host and tool behaviours that can make a difference to one execute
ImportEnv(make_mono, pack_audio) ==
    IF ~IsFile(media_path) \/ ~FFMPEG_PATH
    THEN {[movie |-> "strip", env |-> CHOOSE e \in EnvOutcomes(0, FALSE) : TRUE]}
    ELSE {[movie |-> m, env |-> e] :
            m \in (IF has_video_stream(media_path)
                   THEN {"strip", "none", "raise"} ELSE {"strip"}),
            e \in EnvOutcomes(PlacementCount(make_mono), pack_audio)}

\* faulty variant of ChannelsRead: import ticks every Import box again
ChannelsReset(chs) == [i \in DOMAIN chs |-> [chs[i] EXCEPT !.selected = TRUE]]

\* poll and execute read props.channels and write nothing to it: the list
\* they leave is the list they found
ChannelsRead(chs) == chs

\* the operator is called with the options as the user has set them in the
\* panel (no code writes make_mono, pack_audio or pan_preset) and under the
\* scene's audio setting: poll, then execute. pan_preset is read in the
\* downmix / original mono case alone, and is left at its default otherwise
ImportMedia ==
    /\ last.op = "none"
    /\ \A s \in sequences : s <= MaxTop
    /\ \E make_mono \in BOOLEAN :
        IF ~ImportPoll(make_mono)
        THEN /\ last' = [NoResult EXCEPT !.op = "import",
                                         !.ret = "POLL_FAILED",
                                         !.req.make_mono = make_mono,
                                         !.before = sequences]
             /\ sequences' = sequences
        ELSE \E pack_audio \in BOOLEAN, scene \in SceneSettings :
             \E pan_preset \in (IF make_mono
                                   \/ streams[stream_index + 1].channels <= 1
                                THEN pan_preset_items
                                ELSE {"FRONTCENTER"}) :
             \E x \in ImportEnv(make_mono, pack_audio) :
                LET req == [make_mono |-> make_mono, pack_audio |-> pack_audio,
                            pan_preset |-> pan_preset, scene |-> scene]
                    r == ImportExecute(req, x.movie, x.env)
                IN  /\ last' = r
                    /\ sequences' = sequences \cup
                           {r.clips[i].slot : i \in DOMAIN r.clips}
    /\ channels' = ChannelsRead(channels)
    /\ UNCHANGED <<FFPROBE_PATH, FFMPEG_PATH, media_path, streams,
                   stream_index, channel_index, scan_attempted, console,
                   fnVars>>

\* the operator has returned and its reports have been shown: the panel is
\* idle again
Idle ==
    /\ last.op # "none"
    /\ last' = NoResult
    /\ UNCHANGED <<FFPROBE_PATH, FFMPEG_PATH, propsVars, console, sequences,
                   fnVars>>

(***************************************************************************)
(* Specifications.                                                         *)
(***************************************************************************)
Next ==
    \/ SetMediaPath
    \/ SelectStream
    \/ ToggleChannel
    \/ HostAddStrip
    \/ ScanTracks
    \/ ImportMedia
    \/ Idle

Spec == Init /\ [][Next]_vars

NextFn == EvalChannelNames \/ EvalPanValue

SpecFn == InitFn /\ [][NextFn]_vars

(***************************************************************************)
(* Properties.                                                             *)
(***************************************************************************)
\* execute ran and has returned
ImportReturned == last.op = "import" /\ last.ret \in {"FINISHED", "CANCELLED"}

HasReport(msg) == \E i \in DOMAIN last.reports : last.reports[i].msg = msg

ErrorReports(msgs) ==
    Cardinality({i \in DOMAIN last.reports :
                    last.reports[i].level = "ERROR" /\ last.reports[i].msg \in msgs})

AudioCount == Len(AudioClips(last.clips))

StreamChosen == 0 <= stream_index /\ stream_index < Len(streams)

ChosenStream == streams[stream_index + 1]

Included == SelectSeq(channels, IsSelected)

\* execute took the split branch far enough to build its ffmpeg command
SplitRan == ImportReturned /\ last.cmd.split /\ last.transcodes = 1

\* execute was asked for a downmix, or for a one-channel stream as it is
MonoRequested ==
    /\ ImportReturned
    /\ StreamChosen
    /\ last.req.make_mono \/ ChosenStream.channels = 1

Abs(x) == IF x < 0 THEN -x ELSE x

\* C1: when import returns, on every exit path, no temporary file that it
\* created and flagged for removal (pack, i.e. not kept for the strip to
\* link to) is left on disk.
C1_TempFilesReleased ==
    ImportReturned =>
        \A i \in DOMAIN last.temps :
            last.temps[i].pack => ~last.temps[i].exists

\* C2 as claimed: a split import that ran its transcode has one outcome (a
\* placed clip or a recorded failure) per included channel, whether or not
\* the transcode failed.
C2_OneOutcomePerChannel ==
    SplitRan =>
        /\ last.attempts = Len(last.cmd.labels)
        /\ AudioCount + ErrorReports({"API Fail", "Add Strip Error"})
              = Len(last.cmd.labels)

\* C2 as amended: all included channels of a split import are extracted by
\* one transcode invocation. If it fails (non-zero exit, timeout, unexpected
\* error) import is cancelled with no audio clip and no per-channel outcome;
\* if it succeeds there is one outcome per included channel, a placed clip
\* or an ERROR report, so a rejected placement does not stop the later ones.
C2_SingleTranscodeAllOrNothing ==
    (ImportReturned /\ last.cmd.split) =>
        /\ last.transcodes = 1
        /\ Len(last.cmd.labels) = Len(Included)
        /\ last.ret = "CANCELLED" =>
              /\ last.attempts = 0
              /\ AudioCount = 0
              /\ ErrorReports({"FFmpeg split timed out", "FFmpeg split failed",
                               "Unexpected split error"}) = 1
        /\ last.ret = "FINISHED" =>
              /\ last.attempts = Len(last.cmd.labels)
              /\ AudioCount + ErrorReports({"API Fail", "Add Strip Error"})
                    = Len(last.cmd.labels)

\* a split import in which one placement was rejected and a later channel
\* was still placed
C2_Witness ==
    /\ SplitRan
    /\ last.ret = "FINISHED"
    /\ ErrorReports({"API Fail", "Add Strip Error"}) = 1
    /\ \E i \in DOMAIN last.clips :
          /\ last.clips[i].kind = "audio"
          /\ last.clips[i].temp = Len(last.cmd.labels)
          /\ AudioCount = Len(last.cmd.labels) - 1
          /\ AudioCount >= 2

\* C3: a split import of a stream with more than one channel and at least
\* one included channel gets past planning whatever the stream's layout
\* is: with the media file and ffmpeg present it reaches the transcode,
\* unless a temp file could not be created.
C3_SplitReachesTranscode ==
    (/\ ImportReturned
     /\ StreamChosen
     /\ ~last.req.make_mono
     /\ ChosenStream.channels > 1
     /\ Len(Included) >= 1
     /\ IsFile(media_path)
     /\ FFMPEG_PATH)
    => (last.transcodes = 1 \/ HasReport("Temp file create fail"))

\* the overall outcome by the audio clips placed and the placements rejected
ActualStatus ==
    IF AudioCount = 0 THEN "Failed"
    ELSE IF last.attempts > AudioCount THEN "PartialSuccess"
    ELSE "Success"

\* C4 as claimed: what import returns and the level of its final report
\* tell the three outcomes apart: it fails (cancelled, or final report of
\* level ERROR) exactly when no clip was placed, its final report is a
\* WARNING when a clip was placed and a job failed, and an INFO when a clip
\* was placed and nothing failed.
C4_OverallStatusClassifies ==
    ImportReturned =>
        /\ ActualStatus = "Failed" <=>
              (last.ret = "CANCELLED" \/ last.summary.level = "ERROR")
        /\ ActualStatus = "PartialSuccess" =>
              (last.ret = "FINISHED" /\ last.summary.level = "WARNING")
        /\ (ActualStatus = "Success" /\ last.summary.video # "failed") =>
              (last.ret = "FINISHED" /\ last.summary.level = "INFO")

\* C4 as amended: import ends in failure (cancelled with an ERROR report, or
\* a final report of level ERROR) exactly when no audio clip was placed. When
\* at least one was placed it returns FINISHED with a final report that
\* gives the number of audio clips placed, of level WARNING when the file's
\* video could not be placed and INFO otherwise, whether or not other
\* placements failed: full and partial success differ only by the ERROR
\* reports made per rejected placement, one for each.
C4_FinalReport ==
    ImportReturned =>
        /\ AudioCount = 0 <=>
              (last.ret = "CANCELLED" \/ last.summary.level = "ERROR")
        /\ last.ret = "CANCELLED" =>
              \E i \in DOMAIN last.reports : last.reports[i].level = "ERROR"
        /\ AudioCount > 0 =>
              /\ last.ret = "FINISHED"
              /\ last.summary.count = AudioCount
              /\ last.summary.level =
                    IF last.summary.video = "failed" THEN "WARNING" ELSE "INFO"
        /\ last.ret = "FINISHED" =>
              ErrorReports({"API Fail", "Add Strip Error"})
                 = last.attempts - AudioCount

\* a partial success whose final report is the INFO report of a success
C4_Witness ==
    /\ ImportReturned
    /\ last.ret = "FINISHED"
    /\ AudioCount >= 1
    /\ last.attempts > AudioCount
    /\ last.summary.level = "INFO"

\* a split import is asked for a multi-channel stream with no channel included
SplitWithNoneIncluded ==
    /\ last.op = "import"
    /\ ~last.req.make_mono
    /\ StreamChosen
    /\ ChosenStream.channels > 1
    /\ Len(Included) = 0

\* C5 as claimed: a split import with no channel included ends with the
\* no-channels-selected error, runs no transcode and spawns no process.
C5_NoChannelsSelectedError ==
    SplitWithNoneIncluded =>
        /\ HasReport("No channels selected.")
        /\ last.transcodes = 0
        /\ last.probes = 0

\* C5 as amended: a split import with no channel included is refused by
\* poll, so execute does not run: nothing is reported, no transcode is run,
\* no process is spawned, no temp file is made and no strip is placed.
C5_RefusedByPoll ==
    SplitWithNoneIncluded =>
        /\ last.ret = "POLL_FAILED"
        /\ last.reports = <<>>
        /\ last.transcodes = 0
        /\ last.probes = 0
        /\ last.temps = <<>>
        /\ last.clips = <<>>

\* such an import request, on a media file that exists, with ffmpeg found
C5_Witness ==
    /\ SplitWithNoneIncluded
    /\ IsFile(media_path)
    /\ FFMPEG_PATH /\ FFPROBE_PATH
    /\ last.ret = "POLL_FAILED"

\* the name look-up fell back to generic names
FellBack ==
    /\ call.op = "stream_selected"
    /\ ret.done
    /\ ~(/\ call.layout \in DOMAIN CHANNEL_LAYOUT_MAP
         /\ Len(CHANNEL_LAYOUT_MAP[call.layout].channels) = call.n_ch)

\* C6: the channel names of (layout, n_ch) are the table's list when layout
\* is a key of the table and its list has n_ch names, and Ch1..Ch<n_ch> in
\* every other case; the look-up always yields n_ch names.
C6_ChannelNames ==
    (call.op = "stream_selected" /\ ret.done) =>
        /\ Len(ret.chnames) = call.n_ch
        /\ IF /\ call.layout \in DOMAIN CHANNEL_LAYOUT_MAP
              /\ Len(CHANNEL_LAYOUT_MAP[call.layout].channels) = call.n_ch
           THEN ret.chnames = CHANNEL_LAYOUT_MAP[call.layout].channels
           ELSE \A i \in 1..call.n_ch : ret.chnames[i] = GenericNameTable[i]

\* a mapped layout whose list is shorter than the channel count
C6_Witness ==
    /\ call.op = "stream_selected" /\ ret.done
    /\ call.layout = "stereo" /\ call.n_ch = 3
    /\ ret.chnames = <<"Ch1", "Ch2", "Ch3">>

\* C7 as claimed: whenever the look-up falls back to generic names a warning
\* names the cause: "not mapped" when layout is no key of the table, the
\* empty layout included, and "mismatch" when the table's list has another
\* length.
C7_FallbackNamesCause ==
    FellBack =>
        /\ call.layout \notin DOMAIN CHANNEL_LAYOUT_MAP =>
              "not_mapped" \in ret.warnings
        /\ call.layout \in DOMAIN CHANNEL_LAYOUT_MAP =>
              "mismatch" \in ret.warnings

\* C7 as amended: on the fallback to generic names, "not mapped" is printed
\* when layout is a non-empty string that is no key of the table, and
\* "mismatch" when the table's list has another length; for the empty layout
\* only the generic names are printed and no warning names a cause. Nothing
\* is printed when the table's list is used.
C7_FallbackWarnings ==
    (call.op = "stream_selected" /\ ret.done) =>
        IF ~FellBack THEN ret.warnings = {}
        ELSE IF call.layout \in DOMAIN CHANNEL_LAYOUT_MAP
        THEN ret.warnings = {"mismatch", "generic_names"}
        ELSE IF call.layout # ""
        THEN ret.warnings = {"not_mapped", "generic_names"}
        ELSE ret.warnings = {"generic_names"}

\* the empty layout with three channels
C7_Witness ==
    /\ FellBack
    /\ call.layout = "" /\ call.n_ch = 3
    /\ ret.chnames = <<"Ch1", "Ch2", "Ch3">>
    /\ ret.warnings = {"generic_names"}

\* C8: get_pan_value returns, for every pan key and setting, the table's
\* value for (setting, key) when the setting is one of the five known ones,
\* the STEREO value of the key for any other setting, and 0 for a key
\* without entry; the value is never above 2 in magnitude.
C8_PanValue ==
    (call.op = "get_pan_value" /\ ret.done) =>
        LET row == IF call.setting \in {"MONO", "STEREO", "SURROUND4",
                                        "SURROUND51", "SURROUND71"}
                   THEN pan_values[call.setting]
                   ELSE pan_values["STEREO"]
        IN  /\ call.pan_key \in pan_preset_items =>
                  ret.pan = row[call.pan_key]
            /\ call.pan_key \notin pan_preset_items => ret.pan = 0
            /\ Abs(ret.pan) <= 2 * 100000

\* a side key under a setting that is none of the five
C8_Witness ==
    /\ call.op = "get_pan_value" /\ ret.done
    /\ call.setting = "AMBISONIC" /\ call.pan_key = "SIDELEFT"
    /\ ret.pan = -100000

\* C9: a split import whose transcode and placements all succeed places one
\* mono clip per included channel, in order, each panned by the table value
\* for (scene setting, pan key of the channel's name), whatever the layout
\* of the stream; under SURROUND51 the SL channel of a 5.1(side) stream gets
\* -1.2225.
C9_SplitClipsPanned ==
    (/\ ImportReturned /\ last.ret = "FINISHED" /\ last.cmd.split
     /\ AudioCount = last.attempts) =>
        LET clips == AudioClips(last.clips)
        IN  /\ Len(clips) = Len(Included)
            /\ \A i \in DOMAIN clips :
                  /\ clips[i].mono
                  /\ clips[i].name = Included[i].name
                  /\ clips[i].pan =
                        pan_values[last.req.scene]
                                  [CHANNEL_NAME_TO_PAN_KEY[Included[i].name]]
                  /\ (/\ ChosenStream.channel_layout = "5.1(side)"
                      /\ last.req.scene = "SURROUND51"
                      /\ clips[i].name = "SL") => clips[i].pan = -122250

\* all six channels of the 5.1(side) stream placed under SURROUND51
C9_Witness ==
    /\ ImportReturned /\ last.ret = "FINISHED" /\ last.cmd.split
    /\ ChosenStream.channel_layout = "5.1(side)"
    /\ last.req.scene = "SURROUND51"
    /\ AudioCount = 6
    /\ \E i \in DOMAIN last.clips :
          /\ last.clips[i].name = "SL"
          /\ last.clips[i].pan = -122250
          /\ last.clips[i].mono

\* C10: an import in downmix mode, or of a one-channel stream, runs the
\* transcoder once (not at all only when it is cancelled before its job,
\* with no temp file made) and places at most one audio clip; "-ac 1" is
\* passed if and only if downmix was requested; the clip is panned by the
\* table value of the preset under the scene setting for a downmix, and to
\* 0.0 for an original mono stream.
C10_MonoImport ==
    MonoRequested =>
        /\ last.transcodes = 1
              \/ (/\ last.transcodes = 0 /\ last.ret = "CANCELLED"
                  /\ last.temps = <<>> /\ AudioCount = 0)
        /\ AudioCount <= 1
        /\ last.transcodes = 1 =>
              /\ ~last.cmd.split
              /\ last.cmd.ac1 <=> last.req.make_mono
        /\ \A i \in DOMAIN last.clips :
              last.clips[i].kind = "audio" =>
                  /\ last.clips[i].mono
                  /\ last.clips[i].pan =
                        IF last.req.make_mono
                        THEN pan_values[last.req.scene][last.req.pan_preset]
                        ELSE 0

\* an original mono stream imported while the preset is a side key
C10_Witness ==
    /\ MonoRequested
    /\ ~last.req.make_mono
    /\ last.req.pan_preset = "SIDELEFT"
    /\ last.transcodes = 1 /\ ~last.cmd.ac1
    /\ AudioCount = 1
    /\ \E i \in DOMAIN last.clips :
          last.clips[i].kind = "audio" /\ last.clips[i].pan = 0

\* C11: every clip one import places (the video clip, if any, and the audio
\* clips) gets a slot above every slot occupied before the import; the
\* clips of one import, taken in the order placed (video first, then the
\* audio clips in channel list order), have strictly increasing slots, so no
\* two share a slot; this holds with or without a video clip and with or
\* without rejected placements.
C11_SlotsFreshAndOrdered ==
    ImportReturned =>
        /\ \A i \in DOMAIN last.clips :
              \A s \in last.before : last.clips[i].slot > s
        /\ \A i, j \in DOMAIN last.clips :
              i < j => last.clips[i].slot < last.clips[j].slot
        /\ \A i, j \in DOMAIN last.clips :
              (/\ last.clips[i].kind = "audio" /\ last.clips[j].kind = "audio"
               /\ last.clips[i].temp < last.clips[j].temp) =>
                  last.clips[i].slot < last.clips[j].slot
        /\ \A i \in DOMAIN last.clips :
              last.clips[i].kind = "video" => i = 1

\* a split import into an editor that already holds strips, with the video
\* placed, one placement rejected and audio clips on both sides of the gap
C11_Witness ==
    /\ ImportReturned /\ last.ret = "FINISHED" /\ last.cmd.split
    /\ last.before # {}
    /\ last.clips[1].kind = "video"
    /\ AudioCount >= 2
    /\ last.attempts > AudioCount
    /\ \E i \in DOMAIN last.clips :
          /\ i < Len(last.clips)
          /\ last.clips[i].kind = "audio"
          /\ last.clips[i + 1].slot = last.clips[i].slot + 2

\* the channel list a stream descriptor calls for: one entry per channel,
\* named by the layout table when its list has n_ch names and Ch1..Ch<n_ch>
\* otherwise, numbered from 0, every entry included
FreshList(layout, n_ch) ==
    [i \in 1..n_ch |->
        [name |-> IF /\ layout \in DOMAIN CHANNEL_LAYOUT_MAP
                     /\ Len(CHANNEL_LAYOUT_MAP[layout].channels) = n_ch
                  THEN CHANNEL_LAYOUT_MAP[layout].channels[i]
                  ELSE GenericNameTable[i],
         index |-> i - 1,
         selected |-> TRUE]]

\* C12: selecting stream i leaves a channel list that is a function of that
\* stream's (layout, channel count) alone: one entry per channel, every
\* entry included, nothing kept of the list it replaces. So selecting the
\* index that is already selected gives the same list again, also after
\* channels were excluded, and so does selecting another stream of the same
\* layout. An index outside the catalog leaves the list empty.
C12_SelectionReplacesList ==
    last.op = "select" =>
        IF StreamChosen
        THEN channels = FreshList(ChosenStream.channel_layout,
                                  ChosenStream.channels)
        ELSE channels = <<>>

\* the selected index is selected again after a channel was excluded
C12_Witness ==
    /\ last.op = "select"
    /\ StreamChosen
    /\ last.prior_index = stream_index
    /\ Len(last.prior_channels) = Len(channels)
    /\ Len(channels) >= 2
    /\ \E j \in DOMAIN last.prior_channels : ~last.prior_channels[j].selected
    /\ \A j \in DOMAIN channels : channels[j].selected

\* a scan ran (poll let it through)
ScanRan == last.op = "scan" /\ last.ret \in {"FINISHED", "CANCELLED"}

\* the catalog that the prober's listing of the file at path p calls for:
\* its audio entries that carry a container index, in the order listed,
\* numbered from 0
Reported(p) ==
    LET listed == SelectSeq(MediaFiles[p].audio, LAMBDA s : s.has_index)
    IN  [i \in 1..Len(listed) |->
            [index |-> listed[i].index,
             relative_audio_index |-> i - 1,
             channels |-> listed[i].channels,
             channel_layout |-> listed[i].channel_layout]]

\* C13: the catalog never holds anything but the streams the last scan of
\* the current media path reported (its entries with a container index, in
\* order): it is empty as long as no scan was made since the last change of
\* the media path, empty after a scan whose probe failed (path no file,
\* prober missing, non-zero exit, unparsable output) and, after a scan whose
\* probe gave a listing, exactly that listing. A failed probe ends the scan
\* CANCELLED with an ERROR report; a listing without audio streams ends it
\* FINISHED with an empty catalog and no ERROR report.
C13_CatalogReplaced ==
    /\ ~scan_attempted => (streams = <<>> /\ channels = <<>>)
    /\ streams # <<>> => (IsFile(media_path) /\ streams = Reported(media_path))
    /\ ScanRan =>
          /\ scan_attempted
          /\ streams = IF last.probe = "ok" THEN Reported(media_path) ELSE <<>>
          /\ last.ret = "CANCELLED" <=> last.probe \in {"", "exit", "badjson"}
          /\ last.ret = "CANCELLED" =>
                /\ streams = <<>> /\ channels = <<>> /\ stream_index = -1
                /\ last.reports[Len(last.reports)].level = "ERROR"
          /\ last.ret = "FINISHED" =>
                \A i \in DOMAIN last.reports : last.reports[i].level = "INFO"
          /\ last.probe = "" <=> (~IsFile(media_path) \/ ~FFPROBE_PATH)

\* a rescan whose probe fails, over a catalog that held streams and a
\* populated channel list
C13_Witness ==
    /\ ScanRan
    /\ last.probe \in {"exit", "badjson"}
    /\ last.prior_index >= 0
    /\ last.prior_channels # <<>>
    /\ last.ret = "CANCELLED"
    /\ streams = <<>>

\* the audio stream of the file at path p that the transcoder addresses by
\* the 0-based audio-only index k: the k-th the prober lists
Addressed(p, k) == MediaFiles[p].audio[k + 1]

\* C14: the k-th catalog entry (from 0) has relative_audio_index k and
\* describes the k-th audio stream the prober listed, so that the index an
\* import passes to the transcoder addresses the stream of the chosen
\* catalog entry; this for every listing, one with entries that carry no
\* container index included.
C14_RelativeIndexAddressesStream ==
    /\ \A k \in DOMAIN streams :
          /\ streams[k].relative_audio_index = k - 1
          /\ k <= Len(MediaFiles[media_path].audio)
          /\ Addressed(media_path, k - 1).has_index
          /\ Addressed(media_path, k - 1).index = streams[k].index
          /\ Addressed(media_path, k - 1).channels = streams[k].channels
          /\ Addressed(media_path, k - 1).channel_layout
                = streams[k].channel_layout
    /\ (ImportReturned /\ last.transcodes = 1) =>
          /\ Addressed(media_path, last.cmd.relative_audio_idx).has_index
          /\ Addressed(media_path, last.cmd.relative_audio_idx).index
                = ChosenStream.index

\* C15: a call of import, whatever its outcome, leaves the media path, the
\* stream catalog, the selected stream index and the channel list (names,
\* indexes and Import flags) as it found them; the catalog, the index and
\* the make-up of the channel list change with a scan, a stream selection
\* or a change of the media path alone.
C15_ImportKeepsSelection ==
    [][/\ last'.op = "import" =>
             /\ media_path' = media_path
             /\ streams' = streams
             /\ stream_index' = stream_index
             /\ channels' = channels
             /\ scan_attempted' = scan_attempted
       /\ (\/ streams' # streams
           \/ stream_index' # stream_index
           \/ Len(channels') # Len(channels)) =>
             (last'.op \in {"scan", "select"} \/ ~scan_attempted')]_vars

\* an import cancelled by its transcode, with the stream still chosen and
\* a channel still excluded: the same import can be asked for again
C15_Witness ==
    /\ ImportReturned
    /\ last.ret = "CANCELLED"
    /\ last.transcodes = 1
    /\ last.cmd.split
    /\ StreamChosen
    /\ Len(Included) = Len(last.cmd.labels)
    /\ Len(Included) < Len(channels)
    /\ ImportPoll(last.req.make_mono)

\* the channel count a layout identifier of the table denotes: the sum of
\* the two numbers of an "a.b" identifier, and the count of the named
\* layouts
NominalChannels ==
    "mono" :> 1 @@ "stereo" :> 2 @@ "2.1" :> 3 @@ "3.0" :> 3
 @@ "3.0(back)" :> 3 @@ "3.1" :> 4 @@ "4.0" :> 4 @@ "quad" :> 4
 @@ "quad(side)" :> 4 @@ "4.1" :> 5 @@ "5.0" :> 5 @@ "5.0(side)" :> 5
 @@ "5.1" :> 6 @@ "5.1(side)" :> 6 @@ "6.0" :> 6 @@ "6.0(front)" :> 6
 @@ "6.1" :> 7 @@ "6.1(back)" :> 7 @@ "6.1(front)" :> 7 @@ "7.0" :> 7
 @@ "7.0(front)" :> 7 @@ "7.1" :> 8 @@ "7.1(wide)" :> 8
 @@ "7.1(wide-side)" :> 8 @@ "octagonal" :> 8

\* C16: every entry of CHANNEL_LAYOUT_MAP lists as many channel names as
\* the channel count its key denotes; so the name look-up for a layout of
\* the table and the channel count it denotes gives the names of the table.
C16_TableListsNominalCount ==
    (call.op = "stream_selected" /\ call.layout \in DOMAIN CHANNEL_LAYOUT_MAP)
    =>  /\ call.layout \in DOMAIN NominalChannels
        /\ Len(CHANNEL_LAYOUT_MAP[call.layout].channels)
              = NominalChannels[call.layout]
        /\ (ret.done /\ call.n_ch = NominalChannels[call.layout]) =>
              ret.chnames = CHANNEL_LAYOUT_MAP[call.layout].channels

\* get_pan_value was asked for a side or rear key under SURROUND71
WidePanAsked ==
    /\ call.op = "get_pan_value" /\ ret.done
    /\ call.setting = "SURROUND71"
    /\ call.pan_key \in {"SIDELEFT", "SIDERIGHT", "REARLEFT", "REARRIGHT"}

\* the sign of a pan value: left negative, right positive
Sign(x) == IF x < 0 THEN -1 ELSE IF x > 0 THEN 1 ELSE 0

\* C17 as claimed: the pan value of every side and rear key under
\* SURROUND71 is strictly larger in magnitude than that of the same key
\* under STEREO and under SURROUND4, with the same sign.
C17_WiderPushesOut ==
    WidePanAsked =>
        /\ Abs(ret.pan) > Abs(pan_values["STEREO"][call.pan_key])
        /\ Abs(ret.pan) > Abs(pan_values["SURROUND4"][call.pan_key])
        /\ Sign(ret.pan) = Sign(pan_values["STEREO"][call.pan_key])
        /\ Sign(ret.pan) = Sign(pan_values["SURROUND4"][call.pan_key])

\* C17 as amended: under SURROUND71 every side and rear key is further
\* from center than under STEREO, with the sign kept (left negative, right
\* positive); against SURROUND4 this is so for the rear keys alone
\* (1.66667 against 1.5), while the side keys are nearer to center under
\* SURROUND71 (1.2225) than under SURROUND4 (1.5).
C17_WidePanOrder ==
    WidePanAsked =>
        /\ Abs(ret.pan) > Abs(pan_values["STEREO"][call.pan_key])
        /\ Sign(ret.pan) = Sign(pan_values["STEREO"][call.pan_key])
        /\ Sign(ret.pan) = Sign(pan_values["SURROUND4"][call.pan_key])
        /\ Sign(ret.pan) = IF call.pan_key \in {"SIDELEFT", "REARLEFT"}
                           THEN -1 ELSE 1
        /\ call.pan_key \in {"REARLEFT", "REARRIGHT"} =>
              /\ Abs(ret.pan) = 166667
              /\ Abs(ret.pan) > Abs(pan_values["SURROUND4"][call.pan_key])
        /\ call.pan_key \in {"SIDELEFT", "SIDERIGHT"} =>
              /\ Abs(ret.pan) = 122250
              /\ Abs(ret.pan) < Abs(pan_values["SURROUND4"][call.pan_key])

\* the left side key under SURROUND71: nearer to center than under SURROUND4
C17_Witness ==
    /\ WidePanAsked
    /\ call.pan_key = "SIDELEFT"
    /\ ret.pan = -122250
    /\ pan_values["SURROUND4"]["SIDELEFT"] = -150000

\* C18: in every state reached by scans, changes of the media path, stream
\* selections (and changes of Import flags and imports): when the selected
\* stream index lies within the catalog the channel list has as many
\* entries as that stream has channels, indexed 0, 1, ... in order; when
\* the index is -1 or otherwise outside the catalog the channel list is
\* empty; and a scan that found at least one stream leaves stream 0 selected
\* with its channel list filled in, every channel included.
C18_ChannelListMatchesSelection ==
    /\ StreamChosen =>
          /\ Len(channels) = ChosenStream.channels
          /\ \A i \in DOMAIN channels : channels[i].index = i - 1
    /\ ~StreamChosen => channels = <<>>
    /\ (ScanRan /\ last.ret = "FINISHED" /\ streams # <<>>) =>
          /\ stream_index = 0
          /\ channels = FreshList(streams[1].channel_layout,
                                  streams[1].channels)

\* a rescan made while the second stream was selected: stream 0 is
\* selected again and its channels are listed
C18_Witness ==
    /\ ScanRan /\ last.ret = "FINISHED"
    /\ Len(streams) >= 2
    /\ last.prior_index = 1
    /\ last.prior_channels # <<>>
    /\ stream_index = 0
    /\ Len(channels) = streams[1].channels
    /\ Len(channels) >= 2

\* C19: in a split import the label put at the j-th output position of the
\* channelsplit filter (positions counted from 0, one output per channel of
\* the layout, in layout order) is the name of the channel whose index is
\* j, for every included channel, also when a channel of smaller index is
\* excluded; so the file named, placed and panned for a channel holds that
\* channel's audio.
C19_LabelAtOrdinalPosition ==
    SplitRan =>
        \A i \in DOMAIN channels :
            channels[i].selected =>
                /\ channels[i].index + 1 \in DOMAIN last.cmd.labels
                /\ last.cmd.labels[channels[i].index + 1] = channels[i].name

\* C20: when import returns, every audio clip it placed either has its
\* audio packed into the host or still has its temp file on disk: no temp
\* file a placed clip depends on is deleted, also when packing that clip
\* failed.
C20_PlacedClipKeepsItsAudio ==
    ImportReturned =>
        \A i \in DOMAIN last.clips :
            last.clips[i].kind = "audio" =>
                \/ last.clips[i].packed
                \/ last.temps[last.clips[i].temp].exists

====
